---- MODULE Spec2Model ----
(***************************************************************************)
(* Model of the Shlang recursive-descent parser (src/token_parser.rs) and  *)
(* of the interactive loop (src/main.rs).                                  *)
(*                                                                         *)
(* A Parser object owns a token stream with one token of lookahead and an  *)
(* error printer.  Its state is the number of tokens already taken from    *)
(* the stream (pos) and what it has printed so far (out).  The public      *)
(* operations parse_expr, parse_block, parse_top and batch_parse are the   *)
(* actions; the private functions are operators that thread the parser     *)
(* state p = [pos, out] and return [st, node, tok, p] where st is "Ok",    *)
(* "Err" (the Rust Err(())), "None" (parse_top at end of input) or "Panic" *)
(* (panic!, todo!, expect on a missing token: the process is aborted).     *)
(***************************************************************************)
EXTENDS Integers, Sequences, FiniteSets, TLC

VARIABLES
  input,        \* the token kinds the lexer yields for the source text
  pos,          \* tokens already taken from the stream
  out,          \* the errors the parser has printed
  last,         \* the last public call: operation, start position, result
  calls,        \* number of public calls made on the parser
  aborted,      \* the process was aborted by a panic
  pc,           \* repl: position in the loop body
  lineNo,       \* repl: number of lines read
  ast_result,   \* repl: result of parsing the current line
  init_result,  \* repl: result of evaluating the current line
  stdout,       \* repl: what was printed, per line
  trace         \* repl: the calls made, per line

parserVars == <<input, pos, out, last, calls, aborted>>
replVars == <<pc, lineNo, ast_result, init_result, stdout, trace>>
vars == <<input, pos, out, last, calls, aborted,
          pc, lineNo, ast_result, init_result, stdout, trace>>

(* ---- bounds ---- *)
MaxLen == 4
MaxCalls == 2
MaxLines == 4

(* The token kinds every short input is built from. *)
Alphabet ==
  {"NUM", "IDENTIFIER", "VAR", "DO", "LBRACE", "RBRACE", "LPAREN", "RPAREN",
   "COMMA", "EOL", "EQUAL", "MINUS"}

(* Longer programs: the examples of the language description.              *)
Samples ==
  { <<"NUM", "MINUS", "NUM", "MINUS", "NUM">>,
    <<"NUM", "PLUS", "NUM", "STAR", "NUM">>,
    <<"NUM", "STAR", "NUM", "PLUS", "NUM">>,
    <<"LPAREN", "NUM", "PLUS", "NUM", "RPAREN", "STAR", "NUM">>,
    <<"IDENTIFIER", "EQUAL", "NUM", "PLUS", "NUM">>,
    <<"IDENTIFIER", "LPAREN", "NUM", "COMMA", "NUM", "RPAREN">>,
    <<"IDENTIFIER", "LPAREN", "NUM", "RPAREN", "EQUAL", "NUM">>,
    <<"IDENTIFIER", "LPAREN", "NUM", "COMMA", "RPAREN">>,
    <<"NOT", "TRUE", "AND", "FALSE">>,
    <<"LBRACE", "NUM", "EOL", "NUM", "RBRACE">>,
    <<"LBRACE", "NUM", "EOL", "NUM", "EOL", "RBRACE">>,
    <<"LBRACE", "NUM", "NUM", "RBRACE">>,
    <<"LBRACE", "NUM", "NUM", "NUM", "RBRACE">>,
    <<"LBRACE", "DO", "LBRACE", "NUM", "RBRACE", "EOL", "NUM", "RBRACE">>,
    <<"DO", "LBRACE", "DO", "LBRACE", "NUM", "RBRACE", "EOL", "NUM", "RBRACE">>,
    <<"LOOP", "LBRACE", "STR", "EOL", "RBRACE">>,
    <<"VAR", "IDENTIFIER", "EQUAL", "NUM", "EOL", "VAR", "IDENTIFIER", "EOL">>,
    <<"VAR", "IDENTIFIER", "EQUAL", "DO", "LBRACE", "NUM", "RBRACE", "EOL",
      "VAR", "IDENTIFIER", "EOL">>,
    <<"VAR", "IDENTIFIER", "EOL", "VAR", "EQUAL", "NUM", "EOL">>,
    <<"VAR", "IDENTIFIER", "EOL", "FUNC">> }

Inputs == UNION {[1..n -> Alphabet] : n \in 0..MaxLen} \cup Samples

(* ---- tokens, spans, nodes ---- *)
NoSpan == <<-1, -1>>
NoToken == [kind |-> "NONE", span |-> NoSpan]

(* Token i of the stream: its kind and the byte range it was lexed from.   *)
(* Tokens are one byte wide and one blank apart.                           *)
TokenAt(i) == [kind |-> input[i], span |-> <<2 * (i - 1), 2 * i - 1>>]

(* self.input[token.span.0..token.span.1]: the text is the slice of the    *)
(* source the span selects, so the span stands for it.                     *)
text(token) == <<"text", token.span[1], token.span[2]>>

NoName == <<"text", -1, -1>>
NoNode == [type |-> "None", tag |-> "", name |-> NoName, kids |-> <<>>, span |-> NoSpan]

to_nodespan(type, tag, name, kids, span) ==
  [type |-> type, tag |-> tag, name |-> name, kids |-> kids, span |-> span]

wrap_in_result(n) == to_nodespan("ResultNode", "", NoName, <<n>>, n.span)

Ok(node, p) == [st |-> "Ok", node |-> node, tok |-> NoToken, p |-> p]
OkTok(tok, p) == [st |-> "Ok", node |-> NoNode, tok |-> tok, p |-> p]
Err(p) == [st |-> "Err", node |-> NoNode, tok |-> NoToken, p |-> p]
Panic(p) == [st |-> "Panic", node |-> NoNode, tok |-> NoToken, p |-> p]
None(p) == [st |-> "None", node |-> NoNode, tok |-> NoToken, p |-> p]

(* ---- token stream ---- *)
peek(p) == IF p.pos < Len(input) THEN TokenAt(p.pos + 1) ELSE NoToken

next(p) == IF p.pos < Len(input) THEN [p EXCEPT !.pos = @ + 1] ELSE p

(* One printed error: the message, the span it points at, and the stream   *)
(* position at the time of printing.                                       *)
Diagnostic(msg, expected, span, at) ==
  [msg |-> msg, expected |-> expected, span |-> span, at |-> at]

emit(p, msg, span) ==
  [p EXCEPT !.out = Append(@, Diagnostic(msg, "", span, p.pos))]

peek_some(p) ==
  IF peek(p).kind = "NONE"
  THEN Err(emit(p, "Expected to find another token but none was found", NoSpan))
  ELSE OkTok(peek(p), p)

check_valid(p, expected, token) ==
  IF token.kind # expected
  THEN Err([p EXCEPT !.out =
             Append(@, Diagnostic("expected token", expected, token.span, p.pos))])
  ELSE Ok(NoNode, p)

\* expect as a consuming match: the token is taken before it is checked.
expect_consuming(p, expected) ==
  LET token == peek_some(p) IN
  IF token.st # "Ok" THEN Err(token.p)
  ELSE LET cv == check_valid(next(token.p), expected, token.tok) IN
       IF cv.st # "Ok" THEN Err(cv.p) ELSE OkTok(token.tok, p)

expect(p, expected) ==
  LET token == peek_some(p) IN
  IF token.st # "Ok" THEN Err(token.p)
  ELSE LET cv == check_valid(token.p, expected, token.tok) IN
       IF cv.st # "Ok" THEN Err(cv.p) ELSE OkTok(token.tok, cv.p)

(* ---- the recursive descent ---- *)
(* The result of a nested parse is always handed to an operator as an       *)
(* argument (the `?` of the Rust code is the first test of that operator).  *)
RECURSIVE parse_expr(_), simple_parse(_, _), parse_vardef(_), parse_paren(_, _),
          parse_call(_, _), parse_call_loop(_, _, _, _), parse_block(_),
          parse_block_loop(_, _, _, _), unary_operator(_, _),
          binary_operator(_, _, _), parse_assignment(_, _, _),
          parse_operator(_, _, _)

\* `inner?` followed by Ok(<node with inner as its last child>.to_nodespan(span))
node_around(inner, type, tag, name, kids, span) ==
  IF inner.st # "Ok" THEN inner
  ELSE Ok(to_nodespan(type, tag, name, Append(kids, inner.node), span), inner.p)

parse_vardef(p) ==
  LET first == peek(p)
      ident == expect(p, "IDENTIFIER")
      var_name == text(ident.tok)
      p1 == next(ident.p)
      ps == peek_some(p1)
  IN
  IF ident.st # "Ok" THEN Err(ident.p)
  ELSE IF ps.st # "Ok" THEN Err(ps.p)
  ELSE IF ps.tok.kind = "EOL" THEN
    Ok(to_nodespan("Declaration", "", var_name,
                   <<to_nodespan("Value", "Null", NoName, <<>>, ident.tok.span)>>,
                   <<first.span[1], peek(p1).span[2]>>), p1)
  ELSE IF ps.tok.kind = "EQUAL" THEN
    node_around(parse_expr(next(p1)), "Declaration", "", var_name, <<>>,
                <<first.span[1], peek(p1).span[2]>>)
  ELSE
    Err(emit(p1, "Invalid variable declaration", peek(p1).span))

\* parse_paren after `let expr = self.parse_expr()?`
paren_close(expr, paren) ==
  LET end == peek(expr.p)
      cv == check_valid(expr.p, "RPAREN", end)
  IN
  IF expr.st # "Ok" THEN expr
  ELSE IF end.kind = "NONE"
  THEN Err(emit(expr.p, "Unterminated parentheses", paren.span))
  ELSE IF cv.st # "Ok" THEN Err(cv.p)
  ELSE Ok(expr.node, next(cv.p))

parse_paren(p, paren) == paren_close(parse_expr(p), paren)

\* the DO and LOOP arms after `let block = self.parse_block()?`
block_node(block, type, first) ==
  IF block.st # "Ok" THEN block
  ELSE Ok(to_nodespan(type, "", NoName, <<block.node>>,
                      <<first.span[1], block.node.span[2]>>), block.p)

\* the DO and LOOP arms after `let first = self.expect(TokenType::LBRACE)`
block_expr(first, type) ==
  IF first.st # "Ok" THEN Err(first.p)
  ELSE block_node(parse_block(first.p), type, first.tok)

simple_parse(p, peeked) ==
  LET value == peeked IN
  CASE value.kind = "NONE" -> Panic(p)
    [] value.kind = "STR" ->
         Ok(to_nodespan("Value", "Str", text(value), <<>>, value.span), p)
    [] value.kind = "VAR" -> parse_vardef(p)
    [] value.kind = "NUM" ->
         Ok(to_nodespan("Value", "Num", text(value), <<>>, value.span), p)
    [] value.kind = "FALSE" ->
         Ok(to_nodespan("Value", "Bool(false)", NoName, <<>>, value.span), p)
    [] value.kind = "TRUE" ->
         Ok(to_nodespan("Value", "Bool(true)", NoName, <<>>, value.span), p)
    [] value.kind = "IDENTIFIER" ->
         Ok(to_nodespan("Variable", "", text(value), <<>>, value.span), p)
    [] value.kind = "DO" -> block_expr(expect(p, "LBRACE"), "DoBlock")
    [] value.kind = "LOOP" -> block_expr(expect(p, "LBRACE"), "Loop")
    [] value.kind \in {"NOT", "BANG"} -> unary_operator(p, "NOT")
    [] value.kind = "MINUS" -> unary_operator(p, "NEGATIVE")
    [] value.kind = "LPAREN" -> parse_paren(p, value)
    [] OTHER -> Panic(p)

\* One turn of the while loop of parse_call after `let expr = self.parse_expr()?`;
\* the code after the loop follows its break.
call_argument(expr, params, callee, first) ==
  LET token == peek_some(expr.p) IN
  IF expr.st # "Ok" THEN expr
  ELSE IF token.st # "Ok" THEN Err(token.p)
  ELSE IF token.tok.kind = "RPAREN" THEN
    parse_operator(next(token.p), token.tok,
                   to_nodespan("Call", "", NoName,
                               <<callee>> \o Append(params, expr.node),
                               <<first.span[1], peek(token.p).span[2]>>))
  ELSE IF token.tok.kind = "COMMA" THEN
    parse_call_loop(next(token.p), Append(params, expr.node), callee, first)
  ELSE Err(emit(token.p, "Invalid Token", token.tok.span))

parse_call_loop(p, params, callee, first) ==
  call_argument(parse_expr(p), params, callee, first)

parse_call(p, callee) ==
  LET first == peek(p)
      p1 == next(p)
      token == peek_some(p1)
  IN
  IF first.kind = "NONE" THEN Panic(p)
  ELSE IF token.st # "Ok" THEN Err(token.p)
  ELSE IF token.tok.kind = "RPAREN" THEN
    Ok(to_nodespan("Call", "", NoName, <<callee>>,
                   <<first.span[1], token.tok.span[2]>>), next(p1))
  ELSE parse_call_loop(p1, <<>>, callee, first)

\* One turn of the loop of parse_block after `let expr = self.parse_expr()?`
block_statement(expr, body, first) ==
  LET t == peek_some(expr.p) IN
  IF expr.st # "Ok" THEN expr
  ELSE IF t.st # "Ok" THEN Err(t.p)
  ELSE IF t.tok.kind = "EOL" THEN
    parse_block_loop(next(t.p), Append(body, expr.node), t.tok, first)
  ELSE IF t.tok.kind = "RBRACE" THEN
    Ok(to_nodespan("Block", "", NoName, Append(body, wrap_in_result(expr.node)),
                   <<first.span[1], t.tok.span[2]>>), t.p)
  ELSE
    parse_block_loop(emit(t.p, "Unexpected Token", t.tok.span), body, t.tok, first)

\* The loop of parse_block; token is the last token peeked after an
\* expression (or right after the opening brace).
parse_block_loop(p, body, token, first) ==
  LET ps == peek_some(p) IN
  IF ps.st # "Ok" THEN Err(ps.p)
  ELSE IF ps.tok.kind = "RBRACE" THEN
    Ok(to_nodespan("Block", "", NoName, body, <<first.span[1], token.span[2]>>), p)
  ELSE block_statement(parse_expr(p), body, first)

parse_block(p) ==
  LET first == expect(p, "LBRACE")
      p1 == next(first.p)
      token == peek_some(p1)
  IN
  IF first.st # "Ok" THEN Err(first.p)
  ELSE IF token.st # "Ok" THEN Err(token.p)
  ELSE parse_block_loop(p1, <<>>, token.tok, first.tok)

unary_operator(p, kind) ==
  node_around(simple_parse(next(p), peek(p)), "UnaryNode", kind, NoName, <<>>,
              peek(p).span)

binary_operator(p, left, kind) ==
  node_around(parse_expr(next(p)), "BinaryNode", kind, NoName, <<left>>,
              peek(p).span)

parse_assignment(p, previous, token) ==
  LET cv == check_valid(p, "IDENTIFIER", previous) IN
  IF cv.st # "Ok" THEN Err(cv.p)
  ELSE node_around(parse_expr(next(cv.p)), "Assignment", "", text(previous), <<>>,
                   <<token.span[1], peek(cv.p).span[2]>>)

BinaryOp(kind) ==
  CASE kind = "PLUS" -> "ADD"
    [] kind = "MINUS" -> "SUBTRACT"
    [] kind = "STAR" -> "MULTIPLY"
    [] kind = "SLASH" -> "DIVIDE"
    [] kind = "PERCENT" -> "MODULO"
    [] kind = "GREATER_EQUAL" -> "GREATER_EQUAL"
    [] kind = "GREATER" -> "GREATER"
    [] kind = "LESSER_EQUAL" -> "LESSER_EQUAL"
    [] kind = "LESSER" -> "LESSER"
    [] kind = "DOUBLE_EQUAL" -> "ISEQUAL"
    [] kind = "BANG_EQUAL" -> "ISDIFERENT"
    [] kind \in {"AND", "AMPERSAND"} -> "AND"
    [] kind \in {"OR", "PIPE"} -> "OR"
    [] OTHER -> ""

parse_operator(p, previous, left) ==
  LET token == peek(p) IN
  IF token.kind = "NONE" THEN Ok(left, p)
  ELSE IF token.kind = "EQUAL" THEN parse_assignment(p, previous, token)
  ELSE IF token.kind = "LPAREN" THEN parse_call(p, left)
  ELSE IF BinaryOp(token.kind) # "" THEN binary_operator(p, left, BinaryOp(token.kind))
  ELSE Ok(left, p)

\* parse_expr after `let left = self.simple_parse(&value)?`
operator_after(left, value) ==
  IF left.st # "Ok" THEN left
  ELSE parse_operator(left.p, value, left.node)

parse_expr(p) == operator_after(simple_parse(next(p), peek(p)), peek(p))

\* the VAR arm of parse_top after `let var = Some(self.parse_vardef())`
top_declaration(var) ==
  IF var.st = "Panic" THEN var ELSE [var EXCEPT !.p = next(var.p)]

parse_top(p) ==
  LET token == peek(p) IN
  IF token.kind = "NONE" THEN None(p)
  ELSE IF token.kind = "VAR" THEN top_declaration(parse_vardef(next(p)))
  ELSE Panic(p)

RECURSIVE batch_parse_loop(_, _)

\* One turn of the loop of batch_parse after `self.parse_top()`
batch_parse_step(parsed, body) ==
  IF parsed.st = "Panic" THEN parsed
  ELSE IF parsed.st \in {"None", "Err"}
  THEN Ok(to_nodespan("Block", "", NoName, body, NoSpan), parsed.p)
  ELSE batch_parse_loop(parsed.p, Append(body, parsed.node))

batch_parse_loop(p, body) == batch_parse_step(parse_top(p), body)

batch_parse(p) == batch_parse_loop(p, <<>>)

(* ---- the parser as an object: its public operations ---- *)
NewParser == [pos |-> 0, out |-> <<>>]

ParserInit ==
  /\ input \in Inputs
  /\ pos = NewParser.pos
  /\ out = NewParser.out
  /\ last = [op |-> "new", start |-> 0, nout |-> 0, st |-> "Ok", node |-> NoNode]
  /\ calls = 0
  /\ aborted = FALSE

ReplIdle ==
  /\ pc = "input"
  /\ lineNo = 0
  /\ ast_result = "none"
  /\ init_result = "none"
  /\ stdout = <<>>
  /\ trace = <<>>

Self == [pos |-> pos, out |-> out]

Returned(op, r) ==
  /\ calls < MaxCalls
  /\ ~aborted
  /\ calls' = calls + 1
  /\ pos' = r.p.pos
  /\ out' = r.p.out
  /\ aborted' = (r.st = "Panic")
  /\ last' = [op |-> op, start |-> pos, nout |-> Len(out), st |-> r.st, node |-> r.node]
  /\ UNCHANGED <<input, pc, lineNo, ast_result, init_result, stdout, trace>>

ParseExpr == Returned("parse_expr", parse_expr(Self))

ParseBlock == Returned("parse_block", parse_block(Self))

ParseTop == Returned("parse_top", parse_top(Self))

BatchParse == Returned("batch_parse", batch_parse(Self))

Init == ParserInit /\ ReplIdle

Next == ParseExpr \/ ParseBlock \/ ParseTop \/ BatchParse

Spec == Init /\ [][Next]_vars

(* ---- the interactive loop ---- *)
ParseOutcomes == {"Ok", "Err", "Panic"}
EvalOutcomes == {"Ok", "Err"}

Printed(what) == Append(stdout, [line |-> lineNo, what |-> what])
Called(what) == Append(trace, [line |-> lineNo, what |-> what])

\* let source = input(">: ");
ReplInput ==
  /\ pc = "input"
  /\ lineNo < MaxLines
  /\ lineNo' = lineNo + 1
  /\ stdout' = Append(stdout, [line |-> lineNo + 1, what |-> "prompt"])
  /\ trace' = Append(trace, [line |-> lineNo + 1, what |-> <<"read", "Ok">>])
  /\ ast_result' = "none"
  /\ init_result' = "none"
  /\ pc' = "parse"
  /\ UNCHANGED parserVars

\* let ast_result = parser.batch_parse_expr();
ReplParse ==
  /\ pc = "parse"
  /\ \E r \in ParseOutcomes :
       /\ ast_result' = r
       /\ trace' = Called(<<"parse", r>>)
       /\ pc' = IF r = "Panic" THEN "aborted" ELSE "parsed"
  /\ UNCHANGED <<lineNo, init_result, stdout>>
  /\ UNCHANGED parserVars

\* The parse failure branch without its `continue`: control falls through to
\* the evaluation of the line.
ReplParseFailed_fallthrough ==
  /\ pc = "parsed"
  /\ ast_result = "Err"
  /\ stdout' = Printed("diagnostic")
  /\ ast_result' = "Ok"
  /\ pc' = "parsed"
  /\ UNCHANGED <<lineNo, init_result, trace>>
  /\ UNCHANGED parserVars

\* let Ok(ast) = ast_result else { print_msg; continue; };
ReplParseFailed ==
  /\ pc = "parsed"
  /\ ast_result = "Err"
  /\ stdout' = Printed("diagnostic")
  /\ pc' = "input"
  /\ UNCHANGED <<lineNo, ast_result, init_result, trace>>
  /\ UNCHANGED parserVars

\* let init_result = Interpreter::execute_node(ast);
ReplExecute ==
  /\ pc = "parsed"
  /\ ast_result = "Ok"
  /\ \E r \in EvalOutcomes :
       /\ init_result' = r
       /\ trace' = Called(<<"execute", r>>)
  /\ pc' = "executed"
  /\ UNCHANGED <<lineNo, ast_result, stdout>>
  /\ UNCHANGED parserVars

\* let Ok((result,_)) = init_result else { print_msg; continue; };
ReplExecuteFailed ==
  /\ pc = "executed"
  /\ init_result = "Err"
  /\ stdout' = Printed("diagnostic")
  /\ pc' = "input"
  /\ UNCHANGED <<lineNo, ast_result, init_result, trace>>
  /\ UNCHANGED parserVars

\* println!("{}", defaults::val_to_str(&result).bright_black());
ReplPrintValue ==
  /\ pc = "executed"
  /\ init_result = "Ok"
  /\ stdout' = Printed("value")
  /\ pc' = "input"
  /\ UNCHANGED <<lineNo, ast_result, init_result, trace>>
  /\ UNCHANGED parserVars

ReplInit ==
  /\ ReplIdle
  /\ input = <<>>
  /\ pos = 0
  /\ out = <<>>
  /\ last = [op |-> "new", start |-> 0, nout |-> 0, st |-> "Ok", node |-> NoNode]
  /\ calls = 0
  /\ aborted = FALSE

ReplStep ==
  ReplParse \/ ReplParseFailed \/ ReplExecute \/ ReplExecuteFailed \/ ReplPrintValue

ReplNext == ReplInput \/ ReplStep

\* The loop body runs on one thread: once a line is read, every step up to
\* the next read is taken.
ReplSpec == ReplInit /\ [][ReplNext]_vars /\ WF_vars(ReplStep)

(* ======================= properties ======================= *)
NewDiags == SubSeq(out, last.nout + 1, Len(out))
FirstTok == TokenAt(last.start + 1)
KindAt(i) == IF i >= 1 /\ i <= Len(input) THEN input[i] ELSE "NONE"

Atoms == {"NUM", "IDENTIFIER", "STR", "TRUE", "FALSE"}
Literals == {"NUM", "STR", "TRUE", "FALSE"}
Terminators == {"NONE", "EOL", "RBRACE", "RPAREN", "COMMA"}
Composite ==
  {"Declaration", "Assignment", "BinaryNode", "UnaryNode", "Call", "Block",
   "DoBlock", "Loop"}

\* Binding powers of the binary operators, low to high.
Power(kind) ==
  CASE kind \in {"OR", "PIPE"} -> 1
    [] kind \in {"AND", "AMPERSAND"} -> 2
    [] kind \in {"DOUBLE_EQUAL", "BANG_EQUAL"} -> 3
    [] kind \in {"LESSER", "LESSER_EQUAL", "GREATER", "GREATER_EQUAL"} -> 4
    [] kind \in {"PLUS", "MINUS"} -> 5
    [] kind \in {"STAR", "SLASH", "PERCENT"} -> 6
    [] OTHER -> 0

\* The tokens at s+1..s+5 are `a op1 b op2 c` and the expression ends there.
ChainAt(s) ==
  /\ KindAt(s + 1) \in Atoms /\ KindAt(s + 3) \in Atoms /\ KindAt(s + 5) \in Atoms
  /\ Power(KindAt(s + 2)) > 0 /\ Power(KindAt(s + 4)) > 0
  /\ KindAt(s + 6) \in Terminators

\* The tokens at s+1..s+7 are `( a op1 b ) op2 c` and the expression ends there.
ParenChainAt(s) ==
  /\ KindAt(s + 1) = "LPAREN" /\ KindAt(s + 5) = "RPAREN"
  /\ KindAt(s + 2) \in Atoms /\ KindAt(s + 4) \in Atoms /\ KindAt(s + 7) \in Atoms
  /\ Power(KindAt(s + 3)) > 0 /\ Power(KindAt(s + 6)) > 0
  /\ KindAt(s + 8) \in Terminators

IsLeafOf(n, i) == n.type \in {"Value", "Variable"} /\ n.span = TokenAt(i).span
IsBinaryOf(n, i) == n.type = "BinaryNode" /\ n.tag = BinaryOp(KindAt(i))

\* The index of the brace closing the brace opened at token i, 0 if none.
RECURSIVE MatchFrom(_, _)
MatchFrom(i, depth) ==
  IF i > Len(input) THEN 0
  ELSE IF input[i] = "LBRACE" THEN MatchFrom(i + 1, depth + 1)
  ELSE IF input[i] = "RBRACE"
       THEN (IF depth = 1 THEN i ELSE MatchFrom(i + 1, depth - 1))
  ELSE MatchFrom(i + 1, depth)

MatchBrace(i) == MatchFrom(i, 0)

Within(inner, outer) == outer[1] <= inner[1] /\ inner[2] <= outer[2]

RECURSIVE Nested(_)
Nested(n) ==
  \A i \in 1..Len(n.kids) : Within(n.kids[i].span, n.span) /\ Nested(n.kids[i])

Marked(n) == n.type = "ResultNode"

\* C1: no call of parse_expr, parse_block, parse_top or batch_parse, on any
\* token sequence, aborts the process: each returns a success or a failure.
C1_NoHostAbort == ~aborted

\* C2: binary operators are left-associative: after parse_expr on a chain
\* `a op1 b op2 c` with op1 and op2 of the same binding power, the root is
\* op2, its left child is (a op1 b) and its right child is c.
C2_LeftAssociative ==
  LET s == last.start IN
  (last.op = "parse_expr" /\ ChainAt(s) /\ Power(KindAt(s + 2)) = Power(KindAt(s + 4)))
    => /\ last.st = "Ok"
       /\ IsBinaryOf(last.node, s + 4)
       /\ IsBinaryOf(last.node.kids[1], s + 2)
       /\ IsLeafOf(last.node.kids[1].kids[1], s + 1)
       /\ IsLeafOf(last.node.kids[1].kids[2], s + 3)
       /\ IsLeafOf(last.node.kids[2], s + 5)

\* C3: operands are grouped by binding power: in `a op1 b op2 c` with
\* operators of different power, in either order, the node of the stronger
\* operator is a child of the node of the weaker one; in `( a op1 b ) op2 c`
\* the root is op2 and the parenthesised expression is its left operand.
C3_PrecedenceGrouping ==
  LET s == last.start IN
  /\ (last.op = "parse_expr" /\ ChainAt(s) /\ Power(KindAt(s + 2)) < Power(KindAt(s + 4)))
       => /\ last.st = "Ok"
          /\ IsBinaryOf(last.node, s + 2)
          /\ IsLeafOf(last.node.kids[1], s + 1)
          /\ IsBinaryOf(last.node.kids[2], s + 4)
  /\ (last.op = "parse_expr" /\ ChainAt(s) /\ Power(KindAt(s + 2)) > Power(KindAt(s + 4)))
       => /\ last.st = "Ok"
          /\ IsBinaryOf(last.node, s + 4)
          /\ IsBinaryOf(last.node.kids[1], s + 2)
          /\ IsLeafOf(last.node.kids[2], s + 5)
  /\ (last.op = "parse_expr" /\ ParenChainAt(s))
       => /\ last.st = "Ok"
          /\ IsBinaryOf(last.node, s + 6)
          /\ IsBinaryOf(last.node.kids[1], s + 3)
          /\ IsLeafOf(last.node.kids[2], s + 7)

\* C4: a parse unit stops at its first failure: when parse_block or
\* batch_parse has printed a diagnostic, it printed exactly one, took no
\* token after printing it, and returned a failure.
C4_StopsAtFirstFailure ==
  (last.op \in {"parse_block", "batch_parse"} /\ ~aborted /\ NewDiags # <<>>)
    => /\ Len(NewDiags) = 1
       /\ pos = NewDiags[1].at
       /\ last.st = "Err"

\* C5: `=` after a left-hand side that is not a bare identifier is a failure
\* whose diagnostic points at the `=` token; after a bare identifier an
\* Assignment node with that name is produced.
C5_AssignmentTarget ==
  LET s == last.start IN
  /\ (last.op = "parse_expr" /\ KindAt(s + 1) \in Literals /\ KindAt(s + 2) = "EQUAL")
       => /\ last.st = "Err"
          /\ Len(NewDiags) = 1
          /\ NewDiags[1].span = TokenAt(s + 2).span
  /\ (last.op = "parse_expr" /\ last.st = "Ok"
        /\ KindAt(s + 1) = "IDENTIFIER" /\ KindAt(s + 2) = "EQUAL")
       => /\ last.node.type = "Assignment"
          /\ last.node.name = text(TokenAt(s + 1))

\* `var` at token s+1 is followed by a token that is not an identifier.
VarThenNonIdent(s) ==
  /\ KindAt(s + 1) = "VAR"
  /\ KindAt(s + 2) \notin {"IDENTIFIER", "NONE"}

\* C6: when `var` is followed by a token that is not an identifier,
\* parse_vardef (reached from parse_expr or parse_top) returns a failure,
\* prints one diagnostic whose span is exactly that token's span, produces
\* no node, has not taken that token when it returns, and does not abort.
C6_VardefRejectsNonIdentifier ==
  LET s == last.start IN
  (last.op \in {"parse_expr", "parse_top"} /\ VarThenNonIdent(s))
    => /\ ~aborted
       /\ last.st = "Err"
       /\ last.node = NoNode
       /\ Len(NewDiags) = 1
       /\ NewDiags[1].span = TokenAt(s + 2).span
       /\ NewDiags[1].at = s + 1
       /\ (last.op = "parse_expr" => pos = s + 1)

C6_Witness ==
  /\ last.op = "parse_expr"
  /\ VarThenNonIdent(last.start)
  /\ KindAt(last.start + 2) = "EQUAL"
  /\ KindAt(last.start + 3) = "NUM"
  /\ last.st = "Err"
  /\ Len(NewDiags) = 1

\* C7: a composite node returned by parse_expr or parse_block spans from the
\* start of the first token taken for it to the end of the last one, and
\* every node's span contains the spans of its children.
C7_SpanUnion ==
  (last.op \in {"parse_expr", "parse_block"} /\ last.st = "Ok"
     /\ last.node.type \in Composite)
    => /\ last.node.span = <<FirstTok.span[1], TokenAt(pos).span[2]>>
       /\ Nested(last.node)

\* C8: in a Block returned by parse_block only the last statement can be
\* marked as the result; it is marked exactly when it is followed directly
\* by the closing brace of the block, with no end-of-line in between.
C8_BlockTail ==
  (last.op = "parse_block" /\ last.st = "Ok")
    => LET body == last.node.kids
           close == MatchBrace(last.start + 1)
       IN /\ \A i \in 1..(Len(body) - 1) : ~Marked(body[i])
          /\ pos + 1 = close
          /\ body # <<>> => (Marked(body[Len(body)]) <=> KindAt(close - 1) # "EOL")

TwoDeclarations ==
  <<"VAR", "IDENTIFIER", "EQUAL", "DO", "LBRACE", "NUM", "RBRACE", "EOL",
    "VAR", "IDENTIFIER", "EOL">>

\* C10: a successful parse_block has taken exactly the tokens from its
\* opening brace through the matching closing brace, and batch_parse of
\* `var x = do { 1 }` EOL `var y` EOL yields two declarations.
C10_BlockConsumesOwnBrace ==
  /\ (last.op = "parse_block" /\ last.st = "Ok" /\ NewDiags = <<>>)
       => pos = MatchBrace(last.start + 1)
  /\ (last.op = "batch_parse" /\ last.start = 0 /\ input = TwoDeclarations)
       => /\ ~aborted
          /\ Len(last.node.kids) = 2

(* ---- the interactive loop ---- *)
ParseFailed(l) == \E i \in 1..Len(trace) : trace[i] = [line |-> l, what |-> <<"parse", "Err">>]
ExecFailed(l) == \E i \in 1..Len(trace) : trace[i] = [line |-> l, what |-> <<"execute", "Err">>]
ExecOk(l) == \E i \in 1..Len(trace) : trace[i] = [line |-> l, what |-> <<"execute", "Ok">>]
Evaluated(l) == ExecFailed(l) \/ ExecOk(l)
CountPrinted(l, what) ==
  Cardinality({i \in 1..Len(stdout) : stdout[i] = [line |-> l, what |-> what]})
LineCalls(l) == SelectSeq(trace, LAMBDA e : e.line = l)
Done(l) == l < lineNo \/ pc = "input"
Order == <<"read", "parse", "execute">>

ReplLineInv ==
  \A l \in 1..lineNo :
    /\ ParseFailed(l) => ~Evaluated(l)
    /\ (ParseFailed(l) \/ ExecFailed(l)) => CountPrinted(l, "value") = 0
    /\ (Done(l) /\ (ParseFailed(l) \/ ExecFailed(l))) => CountPrinted(l, "diagnostic") = 1
    /\ CountPrinted(l, "value") = 1 => ExecOk(l)
    /\ Len(LineCalls(l)) <= 3
    /\ \A i \in 1..Len(LineCalls(l)) : LineCalls(l)[i].what[1] = Order[i]
    /\ l < lineNo => CountPrinted(l, "diagnostic") + CountPrinted(l, "value") = 1

ReplSequential ==
  /\ \A i \in 1..(Len(trace) - 1) : trace[i].line <= trace[i + 1].line
  /\ \A i \in 1..(Len(stdout) - 1) : stdout[i].line <= stdout[i + 1].line

FailureReturned ==
  \/ pc = "parsed" /\ ast_result = "Err"
  \/ pc = "executed" /\ init_result = "Err"

\* C9: in the repl a failure ends only the current line: its diagnostic is
\* printed, no value is printed for it, a line whose parse failed is never
\* evaluated, the loop then reaches the next read, and lines are handled one
\* at a time in the order read, parse, evaluate, print.
C9_ReplFailureIsLocal ==
  /\ [](ReplLineInv /\ ReplSequential)
  /\ [][FailureReturned => (pc' = "input" /\ lineNo' = lineNo
                             /\ stdout' = Printed("diagnostic"))]_vars
  /\ (FailureReturned ~> (pc = "input"))

C9_Witness ==
  /\ lineNo = 3
  /\ pc = "parse"
  /\ ParseFailed(1)
  /\ ExecFailed(2)
  /\ CountPrinted(1, "diagnostic") = 1
  /\ CountPrinted(2, "diagnostic") = 1

====
